---- MODULE Spec2Model ----
(***************************************************************************)
(* The queue worker of image-resize: QueueService.StartWorker,             *)
(* processMessage and processJob (internal/services/queue/processor.go),   *)
(* the cache and storage calls they make, the broker's delivery            *)
(* bookkeeping, and the synchronous handler that shares the cache.         *)
(* PipeSpec follows one image through the transformation pipeline of the   *)
(* three processing paths and the two cache-key functions; BatchSpec       *)
(* follows ImageProcessor.BatchResize and the batch response.              *)
(***************************************************************************)
EXTENDS Integers, Sequences, FiniteSets, TLC

\* ---- bounds of the model ----
NumWorkers == 2
NumMsgs == 2
MaxCrash == 1

Workers == 1..NumWorkers
Msgs == 1..NumMsgs
NoMsg == 0

\* ---- models.ProcessingJob statuses ----
StatusPending == "pending"
StatusProcessing == "processing"
StatusCompleted == "completed"
StatusFailed == "failed"

\* ---- request blocks (pointers in AdvancedProcessingRequest; nil = NoBlock) ----
NoBlock == [absent |-> TRUE]
ResizeBlock == [width |-> 2, height |-> 1, quality |-> 85, format |-> "png"]
CropBlock == [x |-> 0, y |-> 0, width |-> 1, height |-> 1]

WatermarkBlock == [text |-> "wm", position |-> "center", opacity |-> 501]

AdvancedProcessingRequest(resize, crop) ==
    [resize |-> resize, crop |-> crop, watermark |-> NoBlock, compress |-> FALSE]

Requests ==
    { AdvancedProcessingRequest(ResizeBlock, NoBlock),
      AdvancedProcessingRequest(NoBlock, CropBlock) }

\* requests of the synchronous resize endpoint, which always carry a resize block
SyncRequests == { r \in Requests : r.resize # NoBlock }

\* source identities: a job's image_url and an uploaded file's name are both
\* plain strings fed to GenerateCacheKey
Sources == {"a"}

\* an opacity is held in thousandths; "%.2f" prints it rounded to hundredths
FormatOpacity(o) == (o + 5) \div 10

GenerateCacheKey_SourceOnly(originalFilename, request) == <<originalFilename>>

\* the text hashed by GenerateCacheKey, as the sequence of the pieces written
\* to the hash; the digest itself is taken to be collision free
GenerateCacheKey(originalFilename, request) ==
    <<originalFilename>>
    \o (IF request.resize # NoBlock
        THEN <<"resize", request.resize.width, request.resize.height,
               request.resize.quality, request.resize.format>>
        ELSE <<>>)
    \o (IF request.crop # NoBlock
        THEN <<"crop", request.crop.x, request.crop.y,
               request.crop.width, request.crop.height>>
        ELSE <<>>)
    \o (IF request.watermark # NoBlock
        THEN <<"watermark", request.watermark.text, request.watermark.position,
               FormatOpacity(request.watermark.opacity)>>
        ELSE <<>>)
    \o (IF request.compress THEN <<"compress">> ELSE <<>>)

\* GenerateCacheKey of package services (sha256): the same pieces joined by
\* "_", without the compress flag
GenerateCacheKeyServices(originalFilename, request) ==
    <<originalFilename>>
    \o (IF request.resize # NoBlock
        THEN <<"resize", request.resize.width, request.resize.height,
               request.resize.quality, request.resize.format>>
        ELSE <<>>)
    \o (IF request.crop # NoBlock
        THEN <<"crop", request.crop.x, request.crop.y,
               request.crop.width, request.crop.height>>
        ELSE <<>>)
    \o (IF request.watermark # NoBlock
        THEN <<"watermark", request.watermark.text, request.watermark.position,
               FormatOpacity(request.watermark.opacity)>>
        ELSE <<>>)

Keys == { GenerateCacheKey(u, r) : u \in Sources, r \in Requests }

\* ---- message bodies ----
\* a body is either bytes that json.Unmarshal rejects, or a serialized
\* ProcessingJob; the job id is the message's own number.  The body's status,
\* error and result fields are read once, by Unmarshal: they are drawn when
\* the body is decoded (Payloads)
Garbage == [kind |-> "garbage"]
JobBody(url, req) == [kind |-> "json", url |-> url, req |-> req]
Bodies == {Garbage} \cup { JobBody(u, r) : u \in Sources, r \in Requests }
PayloadStatuses == {StatusPending, StatusCompleted}

\* messages differ only in their bodies and ids: they are published in the
\* order of BodyRank, and delivered in any order
BodyRank(b) ==
    IF b = Garbage THEN 0
    ELSE IF b.req.resize = NoBlock THEN 1
    ELSE 2

NoJob == [absent |-> TRUE]
NoResult == [absent |-> TRUE]
NoEntry == [absent |-> TRUE]
NoErr == ""

ErrDownload == "failed to download image"
ErrProcess == "failed to process image"
ErrSave == "failed to save processed image"

\* values a cache key can hold: the JSON of a ProcessedImage written by a
\* worker, or the raw image bytes written by the synchronous handler
RawEntry == [kind |-> "raw"]
JsonEntry(result) == [kind |-> "json", result |-> result]

\* what a payload carries in its status, error and result fields: a job as
\* the handlers publish it, or one that has been through a worker before
StaleErr == "stale error"
StaleResult == [ID |-> 0, OriginalURL |-> "stale", URL |-> "stale", Width |-> 0, Height |-> 0]
Payloads ==
    { [status |-> s, error |-> IF s = StatusPending THEN NoErr ELSE StaleErr,
       result |-> IF s = StatusPending THEN NoResult ELSE StaleResult] :
        s \in PayloadStatuses }

NoIO == [get |-> "none", dl |-> "none", tr |-> "none", up |-> "none", set |-> "none"]

\* ---- the transformation pipeline (ProcessImage) and the batch fan-out ----
MaxDim == 2
MaxBatch == 6

DefaultQuality == 85
defaultQuality == 75
DefaultWorkers == 5

Max(a, b) == IF a >= b THEN a ELSE b
Min(a, b) == IF a <= b THEN a ELSE b

\* an image is known by its bounds, which start at (0, 0)
Image(w, h) == [w |-> w, h |-> h]
EmptyImage == Image(0, 0)
IsEmpty(img) == img.w <= 0 \/ img.h <= 0

\* the two ImageProcessor types: package services serves the HTTP handlers,
\* package processor serves the queue worker
Impls == {"services", "processor"}

\* how a request reaches ProcessImage: the resize endpoint (form values),
\* the advanced endpoint (a JSON request), or a queued job
Paths == {"resize", "advanced", "queue"}
ImplOf(path) == IF path = "queue" THEN "processor" ELSE "services"

SourceFormats == {"jpeg", "gif"}
RequestFormats == {"", "png", "bmp"}
RequestQualities == {0, 50, 150}
SourceImages == { Image(w, h) : w \in 1..MaxDim, h \in 1..MaxDim }
CropRequests ==
    [x : (0 - 1)..MaxDim, y : (0 - 1)..MaxDim, width : 1..MaxDim, height : 1..MaxDim]

\* a form value of the resize endpoint: absent (the empty string) or a number
NoValue == [present |-> FALSE]
FormValue(n) == [present |-> TRUE, n |-> n]

NoPipe == [pc |-> "off"]
NoBatch == [pc |-> "off"]
NoCall == [op |-> "none"]
NoLegacy == [pc |-> "off"]
NoUpload == [pc |-> "off"]
NoSubmit == [pc |-> "off"]
NoReport == [status |-> "none"]
NoQueue == [conn |-> "nil", channel |-> "nil", report |-> NoReport]

VARIABLES
    body,    \* body[m]: the bytes of message m (fixed once published)
    mstate,  \* broker's view of m: "ready", "unacked", "acked", "rejected"
    pc,      \* position of worker w's goroutine
    cur,     \* the delivery w is handling
    job,     \* w's local ProcessingJob
    io,      \* what the calls of processJob did for the current delivery
    ackLog,  \* acknowledgment calls made on the current delivery
    cache,   \* cache[k]: the entry under key k
    ctxDone, \* the context passed to StartWorker has been cancelled
    crashes, \* process kills so far
    lostAfterCompute, \* m was transformed when the process died, and no Ack was called on it since
    atCancel, \* what the cancellation of ctx did to w's current processMessage call
    msgsOpen, \* the deliveries channel returned by Consume is open
    pipe,    \* one run of ProcessImage on the way from its request to the encoder
    batch,   \* one BatchResize request
    legacy,  \* one call of the legacy BatchProcess
    qs,      \* the QueueService handle: its connection and its channel
    upm,     \* one call of StorageService.UploadMultiple
    sub      \* one queue-backed batch submission of ImageHandler

workerVars == <<body, mstate, pc, cur, job, io, ackLog, cache, ctxDone, crashes,
                lostAfterCompute, atCancel, msgsOpen>>
handlerVars == <<qs, upm, sub>>
syncVars == <<pipe, batch, legacy, handlerVars>>
vars == <<workerVars, syncVars>>

\* ---- pure pieces of processMessage / processJob ----

\* json.Unmarshal(msg.Body, &job)
UnmarshalOK(b) == b.kind = "json"

UnmarshalJob(m, b, payload) ==
    [id |-> m, url |-> b.url, req |-> b.req, status |-> payload.status,
     error |-> payload.error, result |-> payload.result]

NackRequeue_Requeue == TRUE

\* msg.Nack(false, false): the second argument
NackRequeue == FALSE

\* if err == nil && cachedData != nil
CacheHit(getErr, data) == ~getErr /\ data # NoEntry

\* json.Unmarshal(cachedData, &cachedResult) succeeds
CachedResultOK(data) == data.kind = "json"

AfterCacheGet_IgnoreHit(getErr, data) == "download"

\* where processJob goes after GetFromCache
AfterCacheGet(getErr, data) ==
    IF CacheHit(getErr, data) /\ CachedResultOK(data) THEN "return" ELSE "download"

AfterDownload_Ignore(ok) == "process"

\* where processJob goes after DownloadImage
AfterDownload(ok) == IF ok THEN "process" ELSE "return"

\* where processJob goes after ProcessImage
AfterProcess(ok) == IF ok THEN "save" ELSE "return"

AfterSave_Continue(ok) == "cacheSet"

\* where processJob goes after SaveFile
AfterSave(ok) == IF ok THEN "cacheSet" ELSE "return"

\* the ProcessedImage built by processJob
NewResult(j, processedURL) ==
    [ID |-> j.id, OriginalURL |-> j.url, URL |-> processedURL,
     Width |-> j.req.resize.width, Height |-> j.req.resize.height]

JobOutcome_NoError(j, result, err) ==
    IF err # NoErr
    THEN [j EXCEPT !.status = StatusFailed]
    ELSE [j EXCEPT !.status = StatusCompleted, !.result = result]

\* processMessage, after processJob returned (result, err)
JobOutcome(j, result, err) ==
    IF err # NoErr
    THEN [j EXCEPT !.status = StatusFailed, !.error = err]
    ELSE [j EXCEPT !.status = StatusCompleted, !.result = result]

CacheSetErr_Fatal(ok) == IF ok THEN NoErr ELSE "failed to cache result"

\* the error of SetCache is logged, not returned
CacheSetErr(ok) == NoErr

AckCalled_OnlyOnSuccess(err) == err = NoErr

\* msg.Ack(false) stands after the if/else: it is called whatever err was
AckCalled(err) == TRUE

\* ---- initial state ----
Init ==
    /\ body \in [Msgs -> Bodies]
    /\ \A m \in Msgs : m + 1 \in Msgs => BodyRank(body[m]) <= BodyRank(body[m + 1])
    /\ mstate = [m \in Msgs |-> "ready"]
    /\ pc = [w \in Workers |-> "select"]
    /\ cur = [w \in Workers |-> NoMsg]
    /\ job = [w \in Workers |-> NoJob]
    /\ io = [w \in Workers |-> NoIO]
    /\ ackLog = [w \in Workers |-> <<>>]
    /\ cache = [k \in Keys |-> NoEntry]
    /\ ctxDone = FALSE
    /\ crashes = 0
    /\ lostAfterCompute = [m \in Msgs |-> FALSE]
    /\ atCancel = [w \in Workers |-> "no"]
    /\ msgsOpen = TRUE
    /\ pipe = NoPipe
    /\ batch = NoBatch
    /\ legacy = NoLegacy
    /\ qs = NoQueue
    /\ upm = NoUpload
    /\ sub = NoSubmit

\* ---- helpers ----
Up == \E w \in Workers : pc[w] # "down"

\* processJob returned (result, err): lines 143-155 of processMessage
Return(w, result, err) ==
    /\ job' = [job EXCEPT ![w] = JobOutcome(job[w], result, err)]
    /\ pc' = [pc EXCEPT ![w] = "ack"]

\* the transformed image of w's job exists and its delivery is not yet acknowledged
ComputedNotAcked(w) ==
    \/ pc[w] \in {"save", "cacheSet"}
    \/ pc[w] = "ack" /\ job[w].status = StatusCompleted

\* w is inside a processMessage call that decoded its job
InFlight(w) == pc[w] \in {"mark", "cacheGet", "download", "save", "cacheSet", "ack"}

\* client.Do(req) with req built by http.NewRequestWithContext(ctx, ...)
DownloadOK(netOK, cancelled) == netOK /\ ~cancelled

\* the process dies (kill, or a goroutine's unrecovered panic): every worker
\* goroutine is gone, the connection drops and the broker requeues every
\* delivery it had not seen acknowledged
ProcessDown ==
    /\ pc' = [w \in Workers |-> "down"]
    /\ cur' = [w \in Workers |-> NoMsg]
    /\ job' = [w \in Workers |-> NoJob]
    /\ io' = [w \in Workers |-> NoIO]
    /\ ackLog' = [w \in Workers |-> <<>>]
    /\ atCancel' = [w \in Workers |-> "no"]
    /\ mstate' = [m \in Msgs |-> IF mstate[m] = "unacked" THEN "ready" ELSE mstate[m]]
    /\ lostAfterCompute' =
         [m \in Msgs |-> lostAfterCompute[m]
                         \/ \E w \in Workers : cur[w] = m /\ ComputedNotAcked(w)]

\* ---- StartWorker's goroutine ----
\* select: case msg, ok := <-msgs, then processMessage up to the Nack or to
\* the job being decoded (lines 111-138)
Receive(w, m) ==
    /\ pc[w] = "select"
    /\ msgsOpen
    /\ mstate[m] = "ready"
    /\ cur' = [cur EXCEPT ![w] = m]
    /\ IF UnmarshalOK(body[m])
       THEN /\ \E payload \in Payloads :
                 job' = [job EXCEPT ![w] = UnmarshalJob(m, body[m], payload)]
            /\ pc' = [pc EXCEPT ![w] = "mark"]
            /\ mstate' = [mstate EXCEPT ![m] = "unacked"]
            /\ UNCHANGED ackLog
       ELSE /\ ackLog' = [ackLog EXCEPT ![w] = Append(@, "nack")]
            /\ mstate' = [mstate EXCEPT ![m] = IF NackRequeue THEN "ready" ELSE "rejected"]
            /\ pc' = [pc EXCEPT ![w] = "returned"]
            /\ UNCHANGED job
    /\ UNCHANGED <<syncVars, msgsOpen, atCancel, body, io, cache, ctxDone, crashes, lostAfterCompute>>

\* select: case msg, ok := <-msgs with !ok: the deliveries channel was
\* closed, and the goroutine returns
MsgsClosed(w) ==
    /\ pc[w] = "select"
    /\ ~msgsOpen
    /\ pc' = [pc EXCEPT ![w] = "stopped"]
    /\ UNCHANGED <<syncVars, msgsOpen, atCancel, body, mstate, cur, job, io, ackLog, cache, ctxDone,
                   crashes, lostAfterCompute>>

\* select: case <-ctx.Done()
Stop(w) ==
    /\ pc[w] = "select"
    /\ ctxDone
    /\ pc' = [pc EXCEPT ![w] = "stopped"]
    /\ UNCHANGED <<syncVars, msgsOpen, atCancel, body, mstate, cur, job, io, ackLog, cache, ctxDone, crashes,
                   lostAfterCompute>>

\* ---- processMessage / processJob ----
\* job.Status = models.StatusProcessing
MarkProcessing(w) ==
    /\ pc[w] = "mark"
    /\ job' = [job EXCEPT ![w].status = StatusProcessing]
    /\ pc' = [pc EXCEPT ![w] = "cacheGet"]
    /\ UNCHANGED <<syncVars, msgsOpen, atCancel, body, mstate, cur, io, ackLog, cache, ctxDone, crashes,
                   lostAfterCompute>>

\* GenerateCacheKey, GetFromCache and the decoding of what it returned
CacheGet(w) ==
    /\ pc[w] = "cacheGet"
    /\ \E getErr \in BOOLEAN :
         LET k == GenerateCacheKey(job[w].url, job[w].req)
             data == IF getErr THEN NoEntry ELSE cache[k]
         IN /\ io' = [io EXCEPT ![w].get =
                        IF getErr THEN "error"
                        ELSE IF data = NoEntry THEN "miss"
                        ELSE IF CachedResultOK(data) THEN "hit"
                        ELSE "corrupt"]
            /\ IF AfterCacheGet(getErr, data) = "return"
               THEN Return(w, data.result, NoErr)
               ELSE /\ pc' = [pc EXCEPT ![w] = "download"]
                    /\ UNCHANGED job
    /\ UNCHANGED <<syncVars, msgsOpen, atCancel, body, mstate, cur, ackLog, cache, ctxDone, crashes, lostAfterCompute>>

\* utils.DownloadImage(ctx, ...): the HTTP request carries ctx, so the
\* download succeeds only when the server answers (netOK) and ctx is not
\* cancelled; then q.processor.ProcessImage
DownloadAndProcess(w) ==
    /\ pc[w] = "download"
    /\ \E netOK \in BOOLEAN, trOK \in BOOLEAN :
         LET dlOK == DownloadOK(netOK, ctxDone)
         IN /\ atCancel' = [atCancel EXCEPT ![w] =
                   IF @ = "inflight" /\ netOK /\ ~dlOK THEN "aborted" ELSE @]
            /\ IF AfterDownload(dlOK) = "return"
               THEN /\ trOK
                    /\ io' = [io EXCEPT ![w].dl = "fail"]
                    /\ Return(w, NoResult, ErrDownload)
               ELSE /\ io' = [io EXCEPT ![w].dl = IF dlOK THEN "ok" ELSE "fail",
                                        ![w].tr = IF trOK THEN "ok" ELSE "fail"]
                    /\ IF AfterProcess(trOK) = "return"
                       THEN Return(w, NoResult, ErrProcess)
                       ELSE /\ pc' = [pc EXCEPT ![w] = "save"]
                            /\ UNCHANGED job
    /\ UNCHANGED <<syncVars, msgsOpen, body, mstate, cur, ackLog, cache, ctxDone, crashes, lostAfterCompute>>

\* utils.GenerateFilename(job.ID, job.Request.Resize.Format) and SaveFile:
\* reading Resize.Format through a nil Resize panics, and nothing recovers it
SaveFile(w) ==
    /\ pc[w] = "save"
    /\ IF job[w].req.resize = NoBlock
       THEN /\ ProcessDown
            /\ UNCHANGED <<syncVars, msgsOpen, body, cache, ctxDone, crashes>>
       ELSE /\ \E ok \in BOOLEAN :
                 /\ io' = [io EXCEPT ![w].up = IF ok THEN "ok" ELSE "fail"]
                 /\ IF AfterSave(ok) = "return"
                    THEN Return(w, NoResult, ErrSave)
                    ELSE /\ pc' = [pc EXCEPT ![w] = "cacheSet"]
                         /\ UNCHANGED job
            /\ UNCHANGED <<syncVars, msgsOpen, atCancel, body, mstate, cur, ackLog, cache, ctxDone, crashes,
                           lostAfterCompute>>

\* result := &models.ProcessedImage{...}; SetCache; return result, nil
CacheSet(w) ==
    /\ pc[w] = "cacheSet"
    /\ \E ok \in BOOLEAN :
         LET k == GenerateCacheKey(job[w].url, job[w].req)
             result == NewResult(job[w], IF io[w].up = "ok" THEN "url" ELSE "")
         IN /\ io' = [io EXCEPT ![w].set = IF ok THEN "ok" ELSE "fail"]
            /\ cache' = IF ok THEN [cache EXCEPT ![k] = JsonEntry(result)] ELSE cache
            /\ Return(w, IF CacheSetErr(ok) = NoErr THEN result ELSE NoResult,
                      CacheSetErr(ok))
    /\ UNCHANGED <<syncVars, msgsOpen, atCancel, body, mstate, cur, ackLog, ctxDone, crashes, lostAfterCompute>>

\* msg.Ack(false): when it returns an error the broker has not recorded the
\* acknowledgment and the delivery stays unacknowledged, and on a closed
\* channel it always returns one; then storeJobResult(&job), which only logs
Ack(w) ==
    /\ pc[w] = "ack"
    /\ IF AckCalled(job[w].error)
       THEN \E ok \in (IF msgsOpen THEN BOOLEAN ELSE {FALSE}) :
              /\ ackLog' = [ackLog EXCEPT ![w] = Append(@, "ack")]
              /\ mstate' = [mstate EXCEPT ![cur[w]] = IF ok THEN "acked" ELSE @]
              /\ lostAfterCompute' = [lostAfterCompute EXCEPT ![cur[w]] = FALSE]
       ELSE UNCHANGED <<ackLog, mstate, lostAfterCompute>>
    /\ pc' = [pc EXCEPT ![w] = "returned"]
    /\ io' = [io EXCEPT ![w] = NoIO]
    /\ UNCHANGED <<syncVars, msgsOpen, atCancel, body, cur, job, cache, ctxDone, crashes>>

\* the delivery w has just handled was a poison one, or its job failed, or
\* its Ack returned an error
HandledWithError(w) ==
    /\ pc[w] = "returned"
    /\ \/ ackLog[w] = <<"nack">>
       \/ job[w] # NoJob /\ job[w].status = StatusFailed
       \/ ackLog[w] = <<"ack">> /\ mstate[cur[w]] # "acked"

AfterMessage_StopOnError(failed) == IF failed THEN "stopped" ELSE "select"

\* processMessage returns nothing: whatever happened in it, the for loop of
\* StartWorker goes round to its select
AfterMessage(failed) == "select"

\* processMessage has returned; the for loop goes round
LoopBack(w) ==
    /\ pc[w] = "returned"
    /\ pc' = [pc EXCEPT ![w] = AfterMessage(HandledWithError(w))]
    /\ cur' = [cur EXCEPT ![w] = NoMsg]
    /\ job' = [job EXCEPT ![w] = NoJob]
    /\ ackLog' = [ackLog EXCEPT ![w] = <<>>]
    /\ atCancel' = [atCancel EXCEPT ![w] = "no"]
    /\ UNCHANGED <<syncVars, msgsOpen, body, mstate, io, cache, ctxDone, crashes, lostAfterCompute>>

\* ---- the environment ----
\* the caller of StartWorker cancels ctx
Cancel ==
    /\ Up
    /\ ~ctxDone
    /\ ctxDone' = TRUE
    /\ atCancel' = [w \in Workers |-> IF InFlight(w) THEN "inflight" ELSE atCancel[w]]
    /\ UNCHANGED <<syncVars, msgsOpen, body, mstate, pc, cur, job, io, ackLog, cache, crashes,
                   lostAfterCompute>>

\* the channel is closed (by Close(), by the broker, or with the connection):
\* the library closes the deliveries channel of every consumer.  The broker
\* requeues what was unacknowledged, which nobody can receive before the
\* process is started again: mstate is brought up to date by ProcessDown
CloseChannel ==
    /\ Up
    /\ msgsOpen
    /\ msgsOpen' = FALSE
    /\ UNCHANGED <<syncVars, atCancel, body, mstate, pc, cur, job, io, ackLog, cache, ctxDone,
                   crashes, lostAfterCompute>>

\* the process is killed
Crash ==
    /\ Up
    /\ crashes < MaxCrash
    /\ crashes' = crashes + 1
    /\ ProcessDown
    /\ UNCHANGED <<syncVars, msgsOpen, body, cache, ctxDone>>

\* the process is started again: a fresh context, StartWorker for every worker
Restart ==
    /\ ~Up
    /\ pc' = [w \in Workers |-> "select"]
    /\ ctxDone' = FALSE
    /\ msgsOpen' = TRUE
    /\ UNCHANGED <<syncVars, atCancel, body, mstate, cur, job, io, ackLog, cache, crashes,
                   lostAfterCompute>>

\* ImageHandler.processAndRespond: on anything but a cache hit the
\* synchronous path processes the upload and keeps the encoded image bytes
\* under the key of (file name, request)
ProcessAndRespond(f, r) ==
    /\ \E getErr \in BOOLEAN, ok \in BOOLEAN :
         LET k == GenerateCacheKey(f, r)
         IN cache' = IF ~CacheHit(getErr, cache[k]) /\ ok
                     THEN [cache EXCEPT ![k] = RawEntry]
                     ELSE cache
    /\ UNCHANGED <<syncVars, msgsOpen, atCancel, body, mstate, pc, cur, job, io, ackLog, ctxDone, crashes,
                   lostAfterCompute>>

Next ==
    \/ \E w \in Workers, m \in Msgs : Receive(w, m)
    \/ \E w \in Workers : Stop(w)
    \/ \E w \in Workers : MsgsClosed(w)
    \/ \E w \in Workers : MarkProcessing(w)
    \/ \E w \in Workers : CacheGet(w)
    \/ \E w \in Workers : DownloadAndProcess(w)
    \/ \E w \in Workers : SaveFile(w)
    \/ \E w \in Workers : CacheSet(w)
    \/ \E w \in Workers : Ack(w)
    \/ \E w \in Workers : LoopBack(w)
    \/ Cancel
    \/ CloseChannel
    \/ Crash
    \/ Restart
    \/ \E f \in Sources, r \in SyncRequests : ProcessAndRespond(f, r)

Spec == Init /\ [][Next]_vars

\* fairness of the scheduler: a worker goroutine that can take a step of its
\* loop other than stopping on ctx eventually takes one (a select on a closed
\* deliveries channel does not block), and a dead process is started again
WorkerStep(w) ==
    \/ \E m \in Msgs : Receive(w, m)
    \/ MsgsClosed(w)
    \/ MarkProcessing(w)
    \/ CacheGet(w)
    \/ DownloadAndProcess(w)
    \/ SaveFile(w)
    \/ CacheSet(w)
    \/ Ack(w)
    \/ LoopBack(w)

LiveSpec ==
    /\ Init
    /\ [][Next]_vars
    /\ \A w \in Workers : WF_vars(WorkerStep(w))
    /\ WF_vars(Restart)

\* ---- ProcessImage: the pure pieces ----

\* imaging.Crop(img, rect): the rectangle is intersected with the image's
\* bounds, and an empty intersection gives an empty image
ImagingCrop(img, x0, y0, x1, y1) ==
    LET cx0 == Max(x0, 0)
        cy0 == Max(y0, 0)
        cx1 == Min(x1, img.w)
        cy1 == Min(y1, img.h)
    IN IF cx0 >= cx1 \/ cy0 >= cy1 THEN EmptyImage ELSE Image(cx1 - cx0, cy1 - cy0)

\* imaging.Resize(img, width, height, filter): a negative size, two zero
\* sizes or an empty source give an empty image; a single zero size is
\* computed from the other one to keep the aspect ratio (rounded, at least 1)
ImagingResize(img, width, height) ==
    IF width < 0 \/ height < 0 THEN EmptyImage
    ELSE IF width = 0 /\ height = 0 THEN EmptyImage
    ELSE IF IsEmpty(img) THEN EmptyImage
    ELSE IF width = 0
         THEN Image(Max(1, (2 * height * img.w + img.h) \div (2 * img.h)), height)
    ELSE IF height = 0
         THEN Image(width, Max(1, (2 * width * img.h + img.w) \div (2 * img.w)))
    ELSE Image(width, height)

\* the rectangle cropImage hands to imaging.Crop
cropBounds(impl, img, req) ==
    IF impl = "services"
    THEN LET x == Max(0, Min(req.x, img.w))
             y == Max(0, Min(req.y, img.h))
             width == Min(req.width, img.w - x)
             height == Min(req.height, img.h - y)
         IN [x0 |-> x, y0 |-> y, x1 |-> x + width, y1 |-> y + height]
    ELSE [x0 |-> req.x, y0 |-> req.y, x1 |-> req.x + req.width, y1 |-> req.y + req.height]

cropImage(impl, img, req) ==
    LET b == cropBounds(impl, img, req)
    IN ImagingCrop(img, b.x0, b.y0, b.x1, b.y1)

resizeImage(impl, img, req) ==
    IF impl = "services"
    THEN ImagingResize(img, Max(1, req.width), Max(1, req.height))
    ELSE ImagingResize(img, req.width, req.height)

\* addWatermark draws on an image of the same bounds
addWatermark(img) == img

\* parseQuality: the form value of the resize endpoint
parseQuality(value) ==
    IF ~value.present THEN defaultQuality
    ELSE IF value.n < 1 \/ value.n > 100 THEN defaultQuality
    ELSE value.n

\* getQuality(request); quality is the resize block's, hasResize its presence
getQuality(impl, hasResize, quality) ==
    IF hasResize /\ quality > 0
    THEN (IF impl = "services" THEN Min(100, Max(1, quality)) ELSE quality)
    ELSE DefaultQuality

\* getOutputFormat / the same lines of processor.ProcessImage
getOutputFormat(originalFormat, hasResize, format) ==
    IF hasResize /\ format # "" THEN format ELSE originalFormat

\* encodeImage: the encoder its switch selects
encodeImage(format) ==
    IF format \in {"jpeg", "jpg"} THEN "jpeg"
    ELSE IF format = "png" THEN "png"
    ELSE IF format = "webp" THEN "png"
    ELSE "jpeg"

\* ---- requests whose cache keys are compared ----
\* every block absent or present, the compress flag either way
KeyRequests ==
    { [resize |-> rs, crop |-> cr, watermark |-> wm, compress |-> cp] :
        rs \in {NoBlock, ResizeBlock}, cr \in {NoBlock, CropBlock},
        wm \in {NoBlock, WatermarkBlock}, cp \in BOOLEAN }

\* the requests that differ from r in a single field, or in the presence of
\* a single block
FieldVariants(r) ==
    ( (IF r.resize = NoBlock THEN {[r EXCEPT !.resize = ResizeBlock]}
       ELSE { [r EXCEPT !.resize = NoBlock],
              [r EXCEPT !.resize.width = @ + 1],
              [r EXCEPT !.resize.height = @ + 1],
              [r EXCEPT !.resize.quality = @ + 1],
              [r EXCEPT !.resize.format = "jpeg"] })
      \cup
      (IF r.crop = NoBlock THEN {[r EXCEPT !.crop = CropBlock]}
       ELSE { [r EXCEPT !.crop = NoBlock],
              [r EXCEPT !.crop.x = @ + 1],
              [r EXCEPT !.crop.y = @ + 1],
              [r EXCEPT !.crop.width = @ + 1],
              [r EXCEPT !.crop.height = @ + 1] })
      \cup
      (IF r.watermark = NoBlock THEN {[r EXCEPT !.watermark = WatermarkBlock]}
       ELSE { [r EXCEPT !.watermark = NoBlock],
              [r EXCEPT !.watermark.text = "wm2"],
              [r EXCEPT !.watermark.position = "top-left"],
              [r EXCEPT !.watermark.opacity = @ + 3],
              [r EXCEPT !.watermark.opacity = @ + 100] })
      \cup
      {[r EXCEPT !.compress = ~@]} )

\* ---- ProcessImage, step by step ----
NextStep_ResizeFirst(step) ==
    CASE step = "decode" -> "resize"
      [] step = "resize" -> "crop"
      [] step = "crop" -> "watermark"
      [] step = "watermark" -> "encode"
      [] step = "encode" -> "done"

\* the order of the statements of ProcessImage / applyTransformations
NextStep(step) ==
    CASE step = "decode" -> "crop"
      [] step = "crop" -> "resize"
      [] step = "resize" -> "watermark"
      [] step = "watermark" -> "encode"
      [] step = "encode" -> "done"

\* which blocks a request of each path can carry: parseResizeParams builds a
\* request with a resize block only
HasBlocks(path) ==
    IF path = "resize" THEN {[crop |-> FALSE, resize |-> TRUE, watermark |-> FALSE]}
    ELSE [crop : BOOLEAN, resize : BOOLEAN, watermark : BOOLEAN]

\* the width and height a resize block can carry: parsePositiveInt rejects
\* anything below 1, a JSON request is not checked
ResizeDims(path) == IF path = "resize" THEN 1..MaxDim ELSE 0..MaxDim

NewPipe(path, src, format, has) ==
    [pc |-> "decode", path |-> path, src |-> src, format |-> format, has |-> has,
     img |-> EmptyImage, ops |-> <<>>, last |-> NoCall]

\* one ProcessImage call, or one comparison of two cache keys
PipeInit ==
    /\ body = [m \in Msgs |-> Garbage]
    /\ mstate = [m \in Msgs |-> "ready"]
    /\ pc = [w \in Workers |-> "down"]
    /\ cur = [w \in Workers |-> NoMsg]
    /\ job = [w \in Workers |-> NoJob]
    /\ io = [w \in Workers |-> NoIO]
    /\ ackLog = [w \in Workers |-> <<>>]
    /\ cache = [k \in Keys |-> NoEntry]
    /\ ctxDone = FALSE
    /\ crashes = 0
    /\ lostAfterCompute = [m \in Msgs |-> FALSE]
    /\ atCancel = [w \in Workers |-> "no"]
    /\ msgsOpen = FALSE
    /\ batch = NoBatch
    /\ legacy = NoLegacy
    /\ qs = NoQueue
    /\ upm = NoUpload
    /\ sub = NoSubmit
    /\ \/ \E path \in Paths, src \in SourceImages, format \in SourceFormats :
            \E has \in HasBlocks(path) : pipe = NewPipe(path, src, format, has)
       \/ pipe = [pc |-> "key", last |-> NoCall]

\* image.Decode(file)
Decode ==
    /\ pipe.pc = "decode"
    /\ \E ok \in BOOLEAN :
         pipe' = IF ok THEN [pipe EXCEPT !.pc = NextStep("decode"), !.img = pipe.src]
                 ELSE [pipe EXCEPT !.pc = "failed"]
    /\ UNCHANGED <<workerVars, batch, legacy, handlerVars>>

\* if request.Crop != nil { cropImage }
CropStep ==
    /\ pipe.pc = "crop"
    /\ IF pipe.has.crop
       THEN \E req \in CropRequests :
              LET out == cropImage(ImplOf(pipe.path), pipe.img, req)
              IN pipe' = [pipe EXCEPT !.pc = NextStep("crop"), !.img = out,
                                      !.ops = Append(@, "crop"),
                                      !.last = [op |-> "crop", req |-> req,
                                                in |-> pipe.img, out |-> out]]
       ELSE pipe' = [pipe EXCEPT !.pc = NextStep("crop")]
    /\ UNCHANGED <<workerVars, batch, legacy, handlerVars>>

\* if request.Resize != nil { resizeImage }
ResizeStep ==
    /\ pipe.pc = "resize"
    /\ IF pipe.has.resize
       THEN \E width \in ResizeDims(pipe.path), height \in ResizeDims(pipe.path) :
              LET req == [width |-> width, height |-> height]
                  out == resizeImage(ImplOf(pipe.path), pipe.img, req)
              IN pipe' = [pipe EXCEPT !.pc = NextStep("resize"), !.img = out,
                                      !.ops = Append(@, "resize"),
                                      !.last = [op |-> "resize", req |-> req,
                                                in |-> pipe.img, out |-> out]]
       ELSE pipe' = [pipe EXCEPT !.pc = NextStep("resize")]
    /\ UNCHANGED <<workerVars, batch, legacy, handlerVars>>

\* if request.Watermark != nil { addWatermark }
WatermarkStep ==
    /\ pipe.pc = "watermark"
    /\ IF pipe.has.watermark
       THEN pipe' = [pipe EXCEPT !.pc = NextStep("watermark"),
                                 !.img = addWatermark(pipe.img),
                                 !.ops = Append(@, "watermark"),
                                 !.last = [op |-> "watermark"]]
       ELSE pipe' = [pipe EXCEPT !.pc = NextStep("watermark")]
    /\ UNCHANGED <<workerVars, batch, legacy, handlerVars>>

\* the quality a request gives, and the one its resize block then holds: on
\* the resize endpoint the form value goes through parseQuality
GivenQualities(path) ==
    IF path = "resize"
    THEN { [given |-> IF v.present THEN v.n ELSE 0, held |-> parseQuality(v)] :
             v \in {NoValue} \cup { FormValue(n) : n \in RequestQualities } }
    ELSE { [given |-> q, held |-> q] : q \in RequestQualities }

\* getOutputFormat, getQuality and encodeImage
EncodeStep ==
    /\ pipe.pc = "encode"
    /\ \E q \in (IF pipe.has.resize THEN GivenQualities(pipe.path)
                 ELSE {[given |-> 0, held |-> 0]}),
          f \in (IF pipe.has.resize THEN RequestFormats ELSE {""}) :
         LET outputFormat == getOutputFormat(pipe.format, pipe.has.resize, f)
         IN pipe' = [pipe EXCEPT
                       !.pc = NextStep("encode"),
                       !.ops = Append(@, "encode"),
                       !.last = [op |-> "encode", given |-> q.given, requested |-> f,
                                 format |-> outputFormat,
                                 encoder |-> encodeImage(outputFormat),
                                 quality |-> getQuality(ImplOf(pipe.path),
                                                        pipe.has.resize, q.held)]]
    /\ UNCHANGED <<workerVars, batch, legacy, handlerVars>>

\* GenerateCacheKey, of either package, on two requests for one source
GenerateKeys ==
    /\ pipe.pc = "key"
    /\ \E pkg \in {"storage", "services"}, r1 \in KeyRequests :
         \E r2 \in FieldVariants(r1) \ {r1} :
            pipe' = [pc |-> "keyed",
                     last |-> [op |-> "key", pkg |-> pkg, r1 |-> r1, r2 |-> r2,
                               k1 |-> IF pkg = "storage" THEN GenerateCacheKey("a", r1)
                                      ELSE GenerateCacheKeyServices("a", r1),
                               k2 |-> IF pkg = "storage" THEN GenerateCacheKey("a", r2)
                                      ELSE GenerateCacheKeyServices("a", r2)]]
    /\ UNCHANGED <<workerVars, batch, legacy, handlerVars>>

PipeNext ==
    \/ Decode
    \/ CropStep
    \/ ResizeStep
    \/ WatermarkStep
    \/ EncodeStep
    \/ GenerateKeys

PipeSpec == PipeInit /\ [][PipeNext]_vars

\* ---- BatchResize: the handler and the processor's fan-out ----

\* a models.BatchImage: whether Buffer is set, and Error
ZeroSlot == [buffer |-> FALSE, error |-> ""]
ErrBatch == "failed to process image"

\* the uploads of a batch: files[i] tells whether file i decodes; a batch
\* holds at most one file that does not
BatchFiles == { [i \in 1..k |-> i # f] : k \in 1..MaxBatch, f \in 0..MaxBatch }

processImageJob_AbortAll(i, files, results) ==
    IF files[i] THEN [results EXCEPT ![i] = [buffer |-> TRUE, error |-> ""]]
    ELSE [j \in 1..Len(results) |-> [buffer |-> FALSE, error |-> ErrBatch]]

\* processImageJob(i, files, req, results): ProcessImage on files[i], and
\* the slot it writes
processImageJob(i, files, results) ==
    IF files[i] THEN [results EXCEPT ![i] = [buffer |-> TRUE, error |-> ""]]
    ELSE [results EXCEPT ![i] = [buffer |-> FALSE, error |-> ErrBatch]]

\* the slots buildBatchResponse keeps: if img.Buffer == nil { continue }
KeptSlots(results) ==
    SelectSeq([i \in 1..Len(results) |-> i], LAMBDA i : results[i].buffer)

\* buildBatchResponse: one ImageResponse per kept slot, in slot order; its
\* URL is the one of the upload named after files[i], empty if that failed
buildBatchResponse(results, uploaded) ==
    LET kept == KeptSlots(results)
    IN [n \in 1..Len(kept) |-> [file |-> kept[n], url |-> uploaded[kept[n]]]]

numWorkers_OnePerFile(n) == n

\* numWorkers := DefaultWorkers; if len(files) < numWorkers { numWorkers = len(files) }
numWorkers(n) == IF n < DefaultWorkers THEN n ELSE DefaultWorkers

WaitDone_NoWait(wk) == TRUE

\* wg.Wait() returns: every goroutine has run its deferred wg.Done()
WaitDone(wk) == \A b \in DOMAIN wk : wk[b] = 0 - 1

BatchInit ==
    /\ body = [m \in Msgs |-> Garbage]
    /\ mstate = [m \in Msgs |-> "ready"]
    /\ pc = [w \in Workers |-> "down"]
    /\ cur = [w \in Workers |-> NoMsg]
    /\ job = [w \in Workers |-> NoJob]
    /\ io = [w \in Workers |-> NoIO]
    /\ ackLog = [w \in Workers |-> <<>>]
    /\ cache = [k \in Keys |-> NoEntry]
    /\ ctxDone = FALSE
    /\ crashes = 0
    /\ lostAfterCompute = [m \in Msgs |-> FALSE]
    /\ atCancel = [w \in Workers |-> "no"]
    /\ msgsOpen = FALSE
    /\ pipe = NoPipe
    /\ legacy = NoLegacy
    /\ qs = NoQueue
    /\ upm = NoUpload
    /\ sub = NoSubmit
    /\ \E files \in BatchFiles :
         batch = [pc |-> "start", files |-> files, results |-> <<>>, jobs |-> <<>>,
                  queued |-> 0, closed |-> FALSE, wk |-> <<>>, writes |-> <<>>,
                  images |-> <<>>, success |-> FALSE]

\* results := make(...), jobs := make(chan int, len(files)), and the
\* numWorkers goroutines; writes[i] counts the assignments to results[i]
StartBatch ==
    /\ batch.pc = "start"
    /\ batch' = [batch EXCEPT
                   !.pc = "queue",
                   !.results = [i \in 1..Len(batch.files) |-> ZeroSlot],
                   !.writes = [i \in 1..Len(batch.files) |-> 0],
                   !.wk = [b \in 1..numWorkers(Len(batch.files)) |-> 0]]
    /\ UNCHANGED <<workerVars, pipe, legacy, handlerVars>>

\* jobs <- i
QueueJob ==
    /\ batch.pc = "queue"
    /\ batch.queued < Len(batch.files)
    /\ batch' = [batch EXCEPT !.queued = @ + 1, !.jobs = Append(@, batch.queued + 1)]
    /\ UNCHANGED <<workerVars, pipe, legacy, handlerVars>>

\* close(jobs); wg.Wait()
CloseJobs ==
    /\ batch.pc = "queue"
    /\ batch.queued = Len(batch.files)
    /\ batch' = [batch EXCEPT !.pc = "wait", !.closed = TRUE]
    /\ UNCHANGED <<workerVars, pipe, legacy, handlerVars>>

\* for i := range jobs: a goroutine receives an index
TakeJob(b) ==
    /\ batch.pc \in {"queue", "wait", "responded"}
    /\ b \in DOMAIN batch.wk
    /\ batch.wk[b] = 0
    /\ batch.jobs # <<>>
    /\ batch' = [batch EXCEPT !.wk[b] = Head(batch.jobs), !.jobs = Tail(@)]
    /\ UNCHANGED <<workerVars, pipe, legacy, handlerVars>>

\* p.processImageJob(i, files, req, results)
ProcessImageJob(b) ==
    /\ batch.pc \in {"queue", "wait", "responded"}
    /\ b \in DOMAIN batch.wk
    /\ batch.wk[b] > 0
    /\ batch' = [batch EXCEPT
                   !.results = processImageJob(batch.wk[b], batch.files, @),
                   !.writes[batch.wk[b]] = @ + 1,
                   !.wk[b] = 0]
    /\ UNCHANGED <<workerVars, pipe, legacy, handlerVars>>

\* the range over the closed, drained channel ends: defer wg.Done()
WorkerDone(b) ==
    /\ batch.closed
    /\ b \in DOMAIN batch.wk
    /\ batch.wk[b] = 0
    /\ batch.jobs = <<>>
    /\ batch' = [batch EXCEPT !.wk[b] = 0 - 1]
    /\ UNCHANGED <<workerVars, pipe, legacy, handlerVars>>

\* wg.Wait() returns; buildBatchResponse and c.JSON(http.StatusOK, ...)
Respond ==
    /\ batch.pc = "wait"
    /\ WaitDone(batch.wk)
    /\ \E uploaded \in [1..Len(batch.files) -> BOOLEAN] :
         batch' = [batch EXCEPT
                     !.pc = "responded",
                     !.images = buildBatchResponse(batch.results, uploaded),
                     !.success = TRUE]
    /\ UNCHANGED <<workerVars, pipe, legacy, handlerVars>>

BatchNext ==
    \/ StartBatch
    \/ QueueJob
    \/ CloseJobs
    \/ \E b \in 1..DefaultWorkers : TakeJob(b)
    \/ \E b \in 1..DefaultWorkers : ProcessImageJob(b)
    \/ \E b \in 1..DefaultWorkers : WorkerDone(b)
    \/ Respond

BatchSpec == BatchInit /\ [][BatchNext]_vars

\* ---- the legacy BatchProcess ----
MaxFiles == 2

\* every variable of the queue worker, at rest
WorkersOff ==
    /\ body = [m \in Msgs |-> Garbage]
    /\ mstate = [m \in Msgs |-> "ready"]
    /\ pc = [w \in Workers |-> "down"]
    /\ cur = [w \in Workers |-> NoMsg]
    /\ job = [w \in Workers |-> NoJob]
    /\ io = [w \in Workers |-> NoIO]
    /\ ackLog = [w \in Workers |-> <<>>]
    /\ cache = [k \in Keys |-> NoEntry]
    /\ ctxDone = FALSE
    /\ crashes = 0
    /\ lostAfterCompute = [m \in Msgs |-> FALSE]
    /\ atCancel = [w \in Workers |-> "no"]
    /\ msgsOpen = FALSE

\* a slot of the results slice: the zero ProcessedImage, or the ID written
ZeroImage == ""

\* the call BatchProcess(files, requests), by the lengths of its arguments
LegacyInit ==
    /\ WorkersOff
    /\ pipe = NoPipe
    /\ batch = NoBatch
    /\ qs = NoQueue
    /\ upm = NoUpload
    /\ sub = NoSubmit
    /\ \E nf \in 1..MaxFiles, nr \in 0..MaxFiles :
         legacy = [pc |-> "start", nfiles |-> nf, nrequests |-> nr, results |-> <<>>,
                   jobs |-> <<>>, queued |-> 0, closed |-> FALSE, wk |-> <<>>,
                   late |-> 0]

\* results := make(...); jobs := make(chan int, len(files)); numWorkers
\* goroutines are started, without a WaitGroup
LegacyStart ==
    /\ legacy.pc = "start"
    /\ legacy' = [legacy EXCEPT
                    !.pc = "queue",
                    !.results = [i \in 1..legacy.nfiles |-> ZeroImage],
                    !.wk = [b \in 1..numWorkers(legacy.nfiles) |-> 0]]
    /\ UNCHANGED <<workerVars, pipe, batch, handlerVars>>

\* jobs <- i
LegacyQueueJob ==
    /\ legacy.pc = "queue"
    /\ legacy.queued < legacy.nfiles
    /\ legacy' = [legacy EXCEPT !.queued = @ + 1, !.jobs = Append(@, legacy.queued + 1)]
    /\ UNCHANGED <<workerVars, pipe, batch, handlerVars>>

\* close(jobs)
LegacyClose ==
    /\ legacy.pc = "queue"
    /\ legacy.queued = legacy.nfiles
    /\ legacy' = [legacy EXCEPT !.pc = "closed", !.closed = TRUE]
    /\ UNCHANGED <<workerVars, pipe, batch, handlerVars>>

\* return results: nothing is waited for
LegacyReturn ==
    /\ legacy.pc = "closed"
    /\ legacy' = [legacy EXCEPT !.pc = "returned"]
    /\ UNCHANGED <<workerVars, pipe, batch, handlerVars>>

\* for i := range jobs: a goroutine receives an index
LegacyTake(b) ==
    /\ legacy.pc \in {"queue", "closed", "returned"}
    /\ b \in DOMAIN legacy.wk
    /\ legacy.wk[b] = 0
    /\ legacy.jobs # <<>>
    /\ legacy' = [legacy EXCEPT !.wk[b] = Head(legacy.jobs), !.jobs = Tail(@)]
    /\ UNCHANGED <<workerVars, pipe, batch, handlerVars>>

\* if i < len(files) && i < len(requests) { ProcessImage; results[i] = ... };
\* late counts the writes made after the return
LegacyProcess(b) ==
    /\ legacy.pc \in {"queue", "closed", "returned"}
    /\ b \in DOMAIN legacy.wk
    /\ legacy.wk[b] > 0
    /\ LET i == legacy.wk[b]
       IN IF i <= legacy.nfiles /\ i <= legacy.nrequests
          THEN \E ok \in BOOLEAN :
                 legacy' = [legacy EXCEPT
                              !.results[i] = IF ok THEN "processed" ELSE "error",
                              !.late = IF legacy.pc = "returned" THEN @ + 1 ELSE @,
                              !.wk[b] = 0]
          ELSE legacy' = [legacy EXCEPT !.wk[b] = 0]
    /\ UNCHANGED <<workerVars, pipe, batch, handlerVars>>

\* the range over the closed, drained channel ends
LegacyWorkerDone(b) ==
    /\ legacy.closed
    /\ b \in DOMAIN legacy.wk
    /\ legacy.wk[b] = 0
    /\ legacy.jobs = <<>>
    /\ legacy' = [legacy EXCEPT !.wk[b] = 0 - 1]
    /\ UNCHANGED <<workerVars, pipe, batch, handlerVars>>

LegacyNext ==
    \/ LegacyStart
    \/ LegacyQueueJob
    \/ LegacyClose
    \/ LegacyReturn
    \/ \E b \in 1..DefaultWorkers : LegacyTake(b)
    \/ \E b \in 1..DefaultWorkers : LegacyProcess(b)
    \/ \E b \in 1..DefaultWorkers : LegacyWorkerDone(b)

LegacySpec == LegacyInit /\ [][LegacyNext]_vars

\* ---- ImageHandler: health check and queue-backed batch submission ----
MaxSizes == 2

\* QueueService.HealthCheck: a handle is "nil", "open" or "closed"
HealthCheck(q) ==
    IF q.conn = "nil" \/ q.conn = "closed" THEN "unhealthy: connection closed"
    ELSE IF q.channel = "nil" THEN "unhealthy: channel not available"
    ELSE "healthy"

\* channel.Publish returns an error on a closed channel or connection, or
\* when the frame cannot be written
PublishOK(q, netOK) == q.conn = "open" /\ q.channel = "open" /\ netOK

\* the public URL Upload returns for files[i], whose temporary name holds i
PublicURL(i) == <<"temp", i>>
NoURL == <<>>

\* jobID := fmt.Sprintf("%s_%d_%d", mainJobID, i, j)
JobID(main, i, j) == <<main, "_", i, "_", j>>

StoreURL_First(urls, i, url) == [urls EXCEPT ![1] = url]

\* urls[i] = url
StoreURL(urls, i, url) == [urls EXCEPT ![i] = url]

\* lines 81-97 of UploadMultiple: the URLs of the uploads that succeeded and
\* an error when one failed, or the whole urls slice and no error
UploadResult(urls, errors) ==
    LET okIdx == SelectSeq([i \in 1..Len(urls) |-> i], LAMBDA i : ~errors[i])
        successUrls == [n \in 1..Len(okIdx) |-> urls[okIdx[n]]]
    IN IF Len(okIdx) < Len(urls)
       THEN [urls |-> successUrls, err |-> TRUE]
       ELSE [urls |-> urls, err |-> FALSE]

AfterPublish_Continue(ok) == "next"

\* if err := h.queue.PublishJob(...); err != nil { c.JSON(500, ...); return }
AfterPublish(ok) == IF ok THEN "next" ELSE "respond"

\* the state after NewQueueService, and one batch submission of F files in
\* S sizes
HandlerInit ==
    /\ WorkersOff
    /\ pipe = NoPipe
    /\ batch = NoBatch
    /\ legacy = NoLegacy
    /\ qs = [conn |-> "open", channel |-> "open", report |-> NoReport]
    /\ upm = NoUpload
    /\ \E nf \in 0..MaxFiles, ns \in 0..MaxSizes :
         sub = [pc |-> "parse", nfiles |-> nf, nsizes |-> ns, i |-> 1, j |-> 1,
                published |-> <<>>, attempts |-> 0, failedAt |-> 0, code |-> 0]

\* QueueService.Close(): q.channel.Close() and q.conn.Close()
QueueClose ==
    /\ qs.conn = "open"
    /\ qs' = [qs EXCEPT !.conn = "closed", !.channel = "closed"]
    /\ UNCHANGED <<workerVars, pipe, batch, legacy, upm, sub>>

\* the broker closes the channel on a channel-level error; the connection
\* stays open
ChannelException ==
    /\ qs.conn = "open"
    /\ qs.channel = "open"
    /\ qs' = [qs EXCEPT !.channel = "closed"]
    /\ UNCHANGED <<workerVars, pipe, batch, legacy, upm, sub>>

\* ImageHandler.HealthCheck calls h.queue.HealthCheck(); the report is kept
\* with the handles it was made from
CallHealthCheck ==
    /\ qs' = [qs EXCEPT !.report = [status |-> HealthCheck(qs), conn |-> qs.conn,
                                    channel |-> qs.channel]]
    /\ UNCHANGED <<workerVars, pipe, batch, legacy, upm, sub>>

\* BatchResize up to the call of UploadMultiple: the checks of the form and
\* the reading of the files
ParseForm ==
    /\ sub.pc = "parse"
    /\ IF sub.nfiles = 0 \/ sub.nsizes = 0
       THEN sub' = [sub EXCEPT !.pc = "responded", !.code = 400]
       ELSE \E readOK \in BOOLEAN :
              sub' = IF readOK THEN [sub EXCEPT !.pc = "upload"]
                     ELSE [sub EXCEPT !.pc = "responded", !.code = 500]
    /\ UNCHANGED <<workerVars, pipe, batch, legacy, qs, upm>>

\* h.storage.UploadMultiple(ctx, uploadFiles): urls, errors, jobs and the
\* numWorkers goroutines
UploadStart ==
    /\ sub.pc = "upload"
    /\ sub' = [sub EXCEPT !.pc = "uploading"]
    /\ upm' = [pc |-> "queue", n |-> sub.nfiles,
               urls |-> [i \in 1..sub.nfiles |-> NoURL],
               errors |-> [i \in 1..sub.nfiles |-> FALSE],
               uploads |-> [i \in 1..sub.nfiles |-> 0],
               jobs |-> <<>>, queued |-> 0, closed |-> FALSE,
               wk |-> [b \in 1..numWorkers(sub.nfiles) |-> 0],
               ret |-> <<>>, err |-> FALSE]
    /\ UNCHANGED <<workerVars, pipe, batch, legacy, qs>>

\* jobs <- i
UploadQueueJob ==
    /\ upm.pc = "queue"
    /\ upm.queued < upm.n
    /\ upm' = [upm EXCEPT !.queued = @ + 1, !.jobs = Append(@, upm.queued + 1)]
    /\ UNCHANGED <<workerVars, pipe, batch, legacy, qs, sub>>

\* close(jobs); wg.Wait()
UploadCloseJobs ==
    /\ upm.pc = "queue"
    /\ upm.queued = upm.n
    /\ upm' = [upm EXCEPT !.pc = "wait", !.closed = TRUE]
    /\ UNCHANGED <<workerVars, pipe, batch, legacy, qs, sub>>

\* for i := range jobs
UploadTake(b) ==
    /\ upm.pc \in {"queue", "wait", "returned"}
    /\ b \in DOMAIN upm.wk
    /\ upm.wk[b] = 0
    /\ upm.jobs # <<>>
    /\ upm' = [upm EXCEPT !.wk[b] = Head(upm.jobs), !.jobs = Tail(@)]
    /\ UNCHANGED <<workerVars, pipe, batch, legacy, qs, sub>>

\* url, err := s.Upload(...); urls[i] = url; errors[i] = err
UploadOne(b) ==
    /\ upm.pc \in {"queue", "wait", "returned"}
    /\ b \in DOMAIN upm.wk
    /\ upm.wk[b] > 0
    /\ \E ok \in BOOLEAN :
         LET i == upm.wk[b]
         IN upm' = [upm EXCEPT
                      !.urls = StoreURL(@, i, IF ok THEN PublicURL(i) ELSE NoURL),
                      !.errors[i] = ~ok,
                      !.uploads[i] = @ + 1,
                      !.wk[b] = 0]
    /\ UNCHANGED <<workerVars, pipe, batch, legacy, qs, sub>>

\* the range over the closed, drained channel ends: defer wg.Done()
UploadWorkerDone(b) ==
    /\ upm.pc \in {"wait", "returned"}
    /\ b \in DOMAIN upm.wk
    /\ upm.wk[b] = 0
    /\ upm.jobs = <<>>
    /\ upm' = [upm EXCEPT !.wk[b] = 0 - 1]
    /\ UNCHANGED <<workerVars, pipe, batch, legacy, qs, sub>>

\* wg.Wait() returns; lines 81-97
UploadReturn ==
    /\ upm.pc = "wait"
    /\ WaitDone(upm.wk)
    /\ LET r == UploadResult(upm.urls, upm.errors)
       IN upm' = [upm EXCEPT !.pc = "returned", !.ret = r.urls, !.err = r.err]
    /\ UNCHANGED <<workerVars, pipe, batch, legacy, qs, sub>>

\* if err != nil { c.JSON(500, ...); return }; mainJobID := uuid.New()
AfterUpload ==
    /\ sub.pc = "uploading"
    /\ upm.pc = "returned"
    /\ sub' = IF upm.err THEN [sub EXCEPT !.pc = "responded", !.code = 500]
              ELSE [sub EXCEPT !.pc = "publish", !.i = 1, !.j = 1]
    /\ UNCHANGED <<workerVars, pipe, batch, legacy, qs, upm>>

\* one turn of the two loops: the job of file i and size j is built and
\* handed to PublishJob
PublishJob ==
    /\ sub.pc = "publish"
    /\ \E netOK \in BOOLEAN :
         LET ok == PublishOK(qs, netOK)
             newJob == [id |-> JobID("main", sub.i, sub.j), url |-> upm.ret[sub.i],
                        size |-> sub.j, status |-> StatusPending]
             last == sub.i = sub.nfiles /\ sub.j = sub.nsizes
         IN sub' = IF AfterPublish(ok) = "respond"
                   THEN [sub EXCEPT !.pc = "responded", !.code = 500,
                                    !.attempts = @ + 1, !.failedAt = sub.attempts + 1]
                   ELSE [sub EXCEPT
                           !.pc = IF last THEN "accept" ELSE "publish",
                           !.attempts = @ + 1,
                           !.failedAt = IF ok \/ @ # 0 THEN @ ELSE sub.attempts + 1,
                           !.published = IF ok THEN Append(@, newJob) ELSE @,
                           !.i = IF sub.j = sub.nsizes THEN @ + 1 ELSE @,
                           !.j = IF sub.j = sub.nsizes THEN 1 ELSE @ + 1]
    /\ UNCHANGED <<workerVars, pipe, batch, legacy, qs, upm>>

\* c.JSON(http.StatusAccepted, ...)
Accept ==
    /\ sub.pc = "accept"
    /\ sub' = [sub EXCEPT !.pc = "responded", !.code = 202]
    /\ UNCHANGED <<workerVars, pipe, batch, legacy, qs, upm>>

HandlerNext ==
    \/ QueueClose
    \/ ChannelException
    \/ CallHealthCheck
    \/ ParseForm
    \/ UploadStart
    \/ UploadQueueJob
    \/ UploadCloseJobs
    \/ \E b \in 1..DefaultWorkers : UploadTake(b)
    \/ \E b \in 1..DefaultWorkers : UploadOne(b)
    \/ \E b \in 1..DefaultWorkers : UploadWorkerDone(b)
    \/ UploadReturn
    \/ AfterUpload
    \/ PublishJob
    \/ Accept

HandlerSpec == HandlerInit /\ [][HandlerNext]_vars

\* ---- properties ----

InProcessJob(w) == pc[w] \in {"cacheGet", "download", "save", "cacheSet"}
Terminal(st) == st \in {StatusCompleted, StatusFailed}

\* the error processJob returns, given what its calls did
ErrOf(i) ==
    IF i.dl = "fail" THEN ErrDownload
    ELSE IF i.tr = "fail" THEN ErrProcess
    ELSE IF i.up = "fail" THEN ErrSave
    ELSE NoErr

\* C1: every delivery for which processMessage has returned has had exactly
\* one acknowledgment call, a Nack when its body does not deserialize and an
\* Ack otherwise; before the return there is never more than one call, and
\* none while the job is still being processed
C1_ExactlyOneAck ==
    \A w \in Workers :
        /\ Len(ackLog[w]) <= 1
        /\ pc[w] \in {"mark", "ack"} \/ InProcessJob(w) => ackLog[w] = <<>>
        /\ pc[w] = "returned" =>
             ackLog[w] = <<IF UnmarshalOK(body[cur[w]]) THEN "ack" ELSE "nack">>

C1_Witness ==
    \E w \in Workers :
        /\ pc[w] = "returned"
        /\ job[w] # NoJob
        /\ job[w].status = StatusFailed
        /\ ackLog[w] = <<"ack">>

\* the transitions of a job's status that the data model allows
AllowedStep(s, t) ==
    \/ s = t
    \/ s = StatusPending /\ t = StatusProcessing
    \/ s = StatusProcessing /\ t \in {StatusCompleted, StatusFailed}

\* C2: a job's status only moves pending -> processing -> completed|failed,
\* whatever status the payload carried: no step moves it out of a terminal
\* status or backwards
C2_StatusMonotonic ==
    [][\A w \in Workers :
          (job[w] # NoJob /\ job'[w] # NoJob)
              => AllowedStep(job[w].status, job'[w].status)]_vars

\* C3: a delivery whose body does not deserialize is rejected without
\* requeue, nothing of processJob is run for it, and once rejected the
\* message is never handed to a worker again
C3_PoisonRejected ==
    /\ [](\A w \in Workers :
            (cur[w] # NoMsg /\ ~UnmarshalOK(body[cur[w]])) =>
                /\ pc[w] = "returned"
                /\ ackLog[w] = <<"nack">>
                /\ mstate[cur[w]] = "rejected"
                /\ job[w] = NoJob
                /\ io[w] = NoIO)
    /\ [][\A m \in Msgs : mstate[m] = "rejected" => mstate'[m] = "rejected"]_vars

C3_Witness ==
    \E w \in Workers :
        /\ pc[w] = "returned"
        /\ ~UnmarshalOK(body[cur[w]])
        /\ mstate[cur[w]] = "rejected"

\* C4: when processJob returns an error the job is failed with that error's
\* message, and processMessage still calls Ack (not Nack) on the delivery,
\* which is not put back on the queue
C4_FailedJobAcked ==
    \A w \in Workers :
        /\ (pc[w] = "ack" /\ ErrOf(io[w]) # NoErr) =>
              /\ job[w].status = StatusFailed
              /\ job[w].error = ErrOf(io[w])
        /\ (pc[w] = "returned" /\ job[w] # NoJob /\ job[w].status # StatusCompleted) =>
              /\ job[w].status = StatusFailed
              /\ job[w].error \in {ErrDownload, ErrProcess, ErrSave}
              /\ ackLog[w] = <<"ack">>
              /\ mstate[cur[w]] \in {"acked", "unacked"}

C4_Witness ==
    \E w \in Workers :
        /\ pc[w] = "returned"
        /\ job[w] # NoJob
        /\ job[w].error = ErrProcess
        /\ mstate[cur[w]] = "acked"

C6_UploadFailureCompletes ==
    \A w \in Workers :
        (pc[w] = "ack" /\ io[w].up = "fail") =>
            /\ job[w].status = StatusCompleted
            /\ job[w].result # NoResult
            /\ job[w].result.URL = ""
            /\ io[w].set # "none"

\* C6 amended: when the upload fails after a successful transformation,
\* processJob returns at once: the job ends failed with the message
\* "failed to save processed image", it is given no result (its result
\* field keeps what the payload carried), and nothing is written to the cache
C6_UploadFailureFails ==
    \A w \in Workers :
        io[w].up = "fail" =>
            /\ pc[w] = "ack"
            /\ io[w].tr = "ok"
            /\ job[w].status = StatusFailed
            /\ job[w].error = ErrSave
            /\ job[w].result \in {NoResult, StaleResult}
            /\ io[w].set = "none"

C6_Witness ==
    \E w \in Workers :
        /\ pc[w] = "ack"
        /\ io[w].tr = "ok"
        /\ io[w].up = "fail"

\* C7: when the download or the transformation fails, nothing is uploaded
\* and nothing is written to the cache for that delivery, and the job ends
\* failed with the message of the step that failed
C7_PipelineFailure ==
    \A w \in Workers :
        (io[w].dl = "fail" \/ io[w].tr = "fail") =>
            /\ pc[w] = "ack"
            /\ io[w].get \in {"miss", "error", "corrupt"}
            /\ io[w].up = "none"
            /\ io[w].set = "none"
            /\ job[w].status = StatusFailed
            /\ job[w].error = (IF io[w].dl = "fail" THEN ErrDownload ELSE ErrProcess)
            /\ job[w].result \in {NoResult, StaleResult}

C7_Witness ==
    \E w \in Workers :
        /\ pc[w] = "ack"
        /\ io[w].dl = "ok"
        /\ io[w].tr = "fail"
        /\ job[w].status = StatusFailed

\* C8: an error of the cache get sends the job to the download, as a miss
\* does; an error of the cache set leaves the job completed with the result
\* it computed; and a job only fails with the error of its download,
\* transformation or upload
C8_CacheFailureNotFatal ==
    \A w \in Workers :
        /\ io[w].get \in {"miss", "error"} =>
              \/ pc[w] = "download"
              \/ io[w].dl # "none"
        /\ io[w].set = "fail" =>
              /\ pc[w] = "ack"
              /\ job[w].status = StatusCompleted
              /\ job[w].result = NewResult(job[w], "url")
        /\ (pc[w] = "ack" /\ job[w].status = StatusFailed) =>
              /\ ErrOf(io[w]) # NoErr
              /\ job[w].error = ErrOf(io[w])

C8_Witness ==
    \E w \in Workers :
        /\ pc[w] = "ack"
        /\ io[w].get = "error"
        /\ io[w].set = "fail"
        /\ job[w].status = StatusCompleted

\* a worker goroutine is running its loop
LiveWorker == \E w \in Workers : pc[w] \notin {"down", "stopped"}

\* C9: when the process dies after a job was transformed and before its
\* delivery was acknowledged, then, as long as a live worker keeps existing,
\* the job is delivered again and a later attempt ends in a terminal status
\* and calls Ack on it
C9_AtLeastOnce ==
    ([]<>LiveWorker) =>
        \A m \in Msgs :
            lostAfterCompute[m] ~>
                (\E w \in Workers :
                    /\ cur[w] = m
                    /\ pc[w] = "returned"
                    /\ job[w] # NoJob
                    /\ Terminal(job[w].status)
                    /\ ackLog[w] = <<"ack">>)

\* C10: once ctx is cancelled, no worker that is waiting in its select
\* starts a processMessage call
C10_NoStartAfterCancel ==
    [][\A w \in Workers :
          (ctxDone /\ pc[w] = "select") => pc'[w] \in {"select", "stopped", "down"}]_vars

\* C11: a job that is being processed when ctx is cancelled is not cancelled
\* by it: no step of its processJob fails because of the cancellation, so a
\* download that the server would have answered is never aborted
C11_InFlightJobFinishes ==
    \A w \in Workers : atCancel[w] # "aborted"

\* two results describe the same processed image: same source, same
\* dimensions, each with the URL of a stored object
Equivalent(r1, r2) ==
    /\ r1.OriginalURL = r2.OriginalURL
    /\ r1.Width = r2.Width
    /\ r1.Height = r2.Height
    /\ r1.URL # ""
    /\ r2.URL # ""

\* a result describes the image job j asks for
CorrectFor(result, j) ==
    /\ j.req.resize # NoBlock
    /\ result.OriginalURL = j.url
    /\ result.Width = j.req.resize.width
    /\ result.Height = j.req.resize.height
    /\ result.URL # ""

\* w has computed and written the cache after missing it
MissedAndWrote(w) ==
    /\ pc[w] = "ack"
    /\ io[w].get = "miss"
    /\ io[w].set = "ok"

SlotFor(decodes) ==
    IF decodes THEN [buffer |-> TRUE, error |-> ""]
    ELSE [buffer |-> FALSE, error |-> ErrBatch]

\* C13: a slot whose input fails to process holds an error string, in that
\* slot only: every slot holds what its own file gives, whatever the other
\* files are, and the batch call returns success
C13_SlotIsolation ==
    batch.pc \in {"queue", "wait", "responded"} =>
        /\ \A i \in 1..Len(batch.files) :
             batch.results[i] \in {ZeroSlot, SlotFor(batch.files[i])}
        /\ batch.pc = "responded" =>
             /\ \A i \in 1..Len(batch.files) :
                  batch.results[i] = SlotFor(batch.files[i])
             /\ batch.success

C13_Witness ==
    /\ batch.pc = "responded"
    /\ batch.success
    /\ \E i, j \in 1..Len(batch.files) :
         /\ ~batch.files[i]
         /\ batch.results[i].error = ErrBatch
         /\ batch.files[j]
         /\ batch.results[j].buffer

\* C14: the batch response has one entry per input, in input order, a
\* failed input appearing with its error message
C14_EverySlotListed ==
    batch.pc = "responded" =>
        /\ Len(batch.images) = Len(batch.files)
        /\ \A i \in 1..Len(batch.images) : batch.images[i].file = i

\* the last call of the ProcessImage run
LastOp == IF pipe.pc = "off" THEN "none" ELSE pipe.last.op

\* C15: for one source, two requests that differ in a single field, or in
\* the presence of a single block, get different cache keys: the texts that
\* are hashed differ
C15_DistinctKeys ==
    LastOp = "key" => pipe.last.k1 # pipe.last.k2

\* the operations a request asks for, in the order crop, resize, watermark,
\* encode
ExpectedOps(has) ==
    (IF has.crop THEN <<"crop">> ELSE <<>>)
    \o (IF has.resize THEN <<"resize">> ELSE <<>>)
    \o (IF has.watermark THEN <<"watermark">> ELSE <<>>)
    \o <<"encode">>

IsPrefix(a, b) == Len(a) <= Len(b) /\ SubSeq(b, 1, Len(a)) = a

\* C16: the operations of a run are applied in the order crop, resize,
\* watermark, encode, the ones whose block is absent being skipped, on the
\* synchronous paths and on the queue path alike
C16_PipelineOrder ==
    pipe.pc \in {"decode", "crop", "resize", "watermark", "encode", "done", "failed"} =>
        /\ IsPrefix(pipe.ops, ExpectedOps(pipe.has))
        /\ pipe.pc = "done" => pipe.ops = ExpectedOps(pipe.has)

C16_Witness ==
    /\ pipe.pc = "done"
    /\ pipe.path = "queue"
    /\ pipe.ops = <<"crop", "resize", "watermark", "encode">>

\* C17: for any crop request with width >= 1 and height >= 1, whatever x
\* and y are, the effective crop is a non-empty rectangle inside the source
C17_CropNonEmpty ==
    LastOp = "crop" =>
        /\ ~IsEmpty(pipe.last.out)
        /\ pipe.last.out.w <= pipe.last.in.w
        /\ pipe.last.out.h <= pipe.last.in.h

\* C18: the resize step, given an image, outputs one whose dimensions are
\* exactly (max(1, requested width), max(1, requested height)), on every path
C18_ResizeExact ==
    (LastOp = "resize" /\ ~IsEmpty(pipe.last.in)) =>
        pipe.last.out = Image(Max(1, pipe.last.req.width), Max(1, pipe.last.req.height))

\* C19: the quality passed to the encoder is the requested quality clamped
\* to [1,100], and 85 when the request gives none (absent or zero), through
\* the resize endpoint and through a queued job alike
C19_QualityClamped ==
    LastOp = "encode" =>
        pipe.last.quality =
            (IF pipe.last.given = 0 THEN 85 ELSE Min(100, Max(1, pipe.last.given)))

\* C20: the output format is the requested one when one is given, else the
\* source's; when that format is not a supported one the output is still
\* produced, with a lossless encoder
C20_LosslessFallback ==
    LastOp = "encode" =>
        /\ pipe.last.format =
             (IF pipe.last.requested # "" THEN pipe.last.requested ELSE pipe.format)
        /\ pipe.last.format \notin {"jpeg", "jpg", "png", "webp"} =>
             pipe.last.encoder = "png"

\* C22: a failed Ack, a rejected poison delivery or a failed job never stops
\* a worker: a worker only leaves its loop when ctx is cancelled or the
\* deliveries channel is closed; after any of the three the worker's next
\* step takes it back to its select (unless the whole process dies), where
\* it can receive every ready delivery; and the step in which a worker runs
\* into one of them changes nothing of the other workers
C22_WorkerSurvives ==
    /\ [](\A w \in Workers : pc[w] = "stopped" => ctxDone \/ ~msgsOpen)
    /\ [][\A w \in Workers :
            HandledWithError(w) =>
                \/ pc'[w] \in {"returned", "select"}
                \/ \A v \in Workers : pc'[v] = "down"]_vars
    /\ [][\A w \in Workers, v \in Workers :
            (v # w /\ ~HandledWithError(w) /\ HandledWithError(w)') =>
                /\ pc'[v] = pc[v]
                /\ cur'[v] = cur[v]
                /\ job'[v] = job[v]]_vars
    /\ [](\A w \in Workers, m \in Msgs :
            (pc[w] = "select" /\ msgsOpen /\ mstate[m] = "ready")
                => ENABLED Receive(w, m))

C22_Witness ==
    \E w \in Workers, m \in Msgs :
        /\ HandledWithError(w)
        /\ job[w] # NoJob
        /\ job[w].status = StatusFailed
        /\ ackLog[w] = <<"ack">>
        /\ mstate[cur[w]] = "unacked"
        /\ m # cur[w]
        /\ mstate[m] = "ready"
        /\ msgsOpen
        /\ ~ctxDone

\* C24: every deserializable job, also one whose request has no resize
\* block, is finished with a terminal status and an Ack, and processing it
\* never brings the worker down: the workers only go down when the process
\* is killed from outside
C24_NoResizeJobHandled ==
    /\ [](\A w \in Workers :
            (pc[w] = "returned" /\ job[w] # NoJob) =>
                /\ Terminal(job[w].status)
                /\ ackLog[w] = <<"ack">>)
    /\ [][\A w \in Workers :
            (pc[w] # "down" /\ pc'[w] = "down") => crashes' = crashes + 1]_vars

\* C25: the result of a completed job belongs to that job, whether it was
\* computed by this delivery or read from the cache: its ID is the job's id
\* and its OriginalURL the job's image URL
C25_ResultBelongsToJob ==
    \A w \in Workers :
        (pc[w] \in {"ack", "returned"} /\ job[w] # NoJob
         /\ job[w].status = StatusCompleted) =>
            /\ job[w].result # NoResult
            /\ job[w].result.ID = job[w].id
            /\ job[w].result.OriginalURL = job[w].url

\* C29: once processMessage has handled a deserializable payload the job is
\* completed with a result and an empty error message, or failed with a
\* non-empty error message and no result, whatever the payload carried in
\* its result and error fields
C29_TerminalShape ==
    \A w \in Workers :
        (pc[w] = "returned" /\ job[w] # NoJob) =>
            \/ /\ job[w].status = StatusCompleted
               /\ job[w].result # NoResult
               /\ job[w].error = NoErr
            \/ /\ job[w].status = StatusFailed
               /\ job[w].error # NoErr
               /\ job[w].result = NoResult

\* C21: BatchResize over K inputs starts exactly min(5, K) goroutines, and
\* never are more than min(5, K) inputs being processed at the same time
C21_WorkerCount ==
    batch.pc \in {"queue", "wait", "responded"} =>
        /\ Len(batch.wk) = Min(5, Len(batch.files))
        /\ Cardinality({ b \in DOMAIN batch.wk : batch.wk[b] > 0 })
             <= Min(5, Len(batch.files))

C21_Witness ==
    /\ batch.pc \in {"queue", "wait"}
    /\ Len(batch.files) = 6
    /\ Cardinality({ b \in DOMAIN batch.wk : batch.wk[b] > 0 }) = 5
    /\ batch.jobs # <<>>

\* C26: no slot of the result slice is ever written twice, and when
\* BatchResize has returned every index has been processed and its slot
\* written exactly once, and no goroutine is left that could write a slot
C26_EachSlotOnce ==
    batch.pc \in {"queue", "wait", "responded"} =>
        /\ \A i \in 1..Len(batch.files) : batch.writes[i] <= 1
        /\ \A b1 \in DOMAIN batch.wk, b2 \in DOMAIN batch.wk :
             (b1 # b2 /\ batch.wk[b1] > 0) => batch.wk[b1] # batch.wk[b2]
        /\ batch.pc = "responded" =>
             /\ \A i \in 1..Len(batch.files) :
                  /\ batch.writes[i] = 1
                  /\ batch.results[i] # ZeroSlot
             /\ batch.jobs = <<>>
             /\ \A b \in DOMAIN batch.wk : batch.wk[b] = 0 - 1

C26_Witness ==
    /\ batch.pc = "responded"
    /\ Len(batch.files) > Len(batch.wk)
    /\ \A i \in 1..Len(batch.files) : batch.writes[i] = 1

\* C27: when the legacy BatchProcess returns its results, every slot below
\* min(len(files), len(requests)) has been filled, no goroutine is still
\* running, and none writes the slice after the return
C27_LegacyFilledAtReturn ==
    legacy.pc = "returned" =>
        /\ \A i \in 1..Min(legacy.nfiles, legacy.nrequests) :
             legacy.results[i] # ZeroImage
        /\ legacy.jobs = <<>>
        /\ \A b \in DOMAIN legacy.wk : legacy.wk[b] = 0 - 1
        /\ legacy.late = 0

\* C23: HealthCheck reports unhealthy whenever the connection or the channel
\* is closed, also when only the channel is, and healthy only when both are
\* open
C23_HealthReflectsHandles ==
    qs.report # NoReport =>
        (qs.report.status = "healthy"
            <=> (qs.report.conn = "open" /\ qs.report.channel = "open"))

\* C28: when UploadMultiple returns without error the list holds one URL per
\* file, the one at position i being the URL of the upload of files[i]; each
\* file has been uploaded exactly once, no file is ever uploaded twice, and
\* no upload goroutine is left at the return
C28_UploadsInOrder ==
    upm.pc # "off" =>
        /\ \A i \in 1..upm.n : upm.uploads[i] <= 1
        /\ upm.pc = "returned" =>
             /\ \A i \in 1..upm.n : upm.uploads[i] = 1
             /\ \A b \in DOMAIN upm.wk : upm.wk[b] = 0 - 1
             /\ ~upm.err =>
                  /\ Len(upm.ret) = upm.n
                  /\ \A i \in 1..upm.n : upm.ret[i] = PublicURL(i)

C28_Witness ==
    /\ upm.pc = "returned"
    /\ ~upm.err
    /\ upm.n >= 2
    /\ Len(upm.ret) = upm.n

\* C30: the submission is answered 202 only when all F x S jobs have been
\* published, each pending and with an id of its own; when an upload failed
\* no job is published; and at the first publish that fails the handler
\* answers with an error and makes no further publish
C30_AllOrError ==
    sub.pc # "off" =>
        /\ sub.code = 202 =>
             /\ Len(sub.published) = sub.nfiles * sub.nsizes
             /\ \A n \in 1..Len(sub.published) : sub.published[n].status = StatusPending
             /\ \A n1 \in 1..Len(sub.published), n2 \in 1..Len(sub.published) :
                  n1 # n2 => sub.published[n1].id # sub.published[n2].id
        /\ (upm.pc = "returned" /\ upm.err) => sub.published = <<>>
        /\ sub.failedAt # 0 =>
             /\ sub.pc = "responded"
             /\ sub.code = 500
             /\ sub.attempts = sub.failedAt
             /\ Len(sub.published) = sub.failedAt - 1

C30_Witness ==
    /\ sub.pc = "responded"
    /\ sub.code = 202
    /\ sub.nfiles >= 2
    /\ sub.nsizes >= 2
    /\ Len(sub.published) = sub.nfiles * sub.nsizes

====
